---- MODULE Spec2Model ----
(***************************************************************************)
(* Model of erc20gen's configuration core (internal/config/config.go):     *)
(* TokenConfig, TokenConfig.Validate and validateSupplyString.             *)
(*                                                                         *)
(* Go strings are modelled as sequences of one-character strings, so that  *)
(* trimming, case mapping, regular-expression matching and decimal         *)
(* parsing are computed character by character as the library does.        *)
(* AccessControl, License and SolidityVersion are only ever compared for   *)
(* equality by the code and are kept as atomic strings.                    *)
(***************************************************************************)
EXTENDS Integers, Sequences, FiniteSets, TLC

VARIABLES
  cfg,      \* the TokenConfig
  input,    \* history: the configuration as constructed
  err,      \* the error returned by the last Validate
  calls,    \* history: number of Validate calls
  first,    \* history: outcome of the first Validate
  imports,  \* the slice returned by the last ImportPaths
  inherit,  \* the slice returned by the last InheritanceList
  safe,     \* the strings returned by the last SafeName, ContractFileName
  peer,     \* a second token's configuration, its Validate error and SafeName
  q,        \* history: query counts, and the first query's state and returns
  pc,       \* position of runGenerate
  ret,      \* the error runGenerate returned
  flags,    \* the command-line flags runGenerate reads
  fs,       \* the directories and files on disk
  log,      \* history: the operations runGenerate has called, in order
  reqs,     \* the generation requests of a host process, each with its own
            \* TokenConfig, Generator and results
  shared    \* the package-level variables of internal/config and
            \* internal/generator

listVars == <<imports, inherit, safe, peer, q>>

runVars == <<pc, ret, flags, fs, log>>

concVars == <<reqs, shared>>

vars ==
  <<cfg, input, err, calls, first, imports, inherit, safe, peer, q,
    pc, ret, flags, fs, log, reqs, shared>>

(***************************************************************************)
(* Bounds of the model                                                     *)
(***************************************************************************)
MaxCalls == 2
MaxSymLen == 2
MaxSupplyLen == 2
MaxQueries == 2
MaxNameLen == 2

(***************************************************************************)
(* Program constants                                                       *)
(***************************************************************************)
MaxUint8 == 255
MaxDecimals == 18
SymbolMaxLen == 11
NameMaxLen == 64

AccessOwnable == "ownable"
AccessRoles == "roles"
AccessNone == "none"

DefaultLicense == "MIT"
DefaultSolidityVersion == "^0.8.24"

(***************************************************************************)
(* Characters                                                              *)
(***************************************************************************)
UpperSeq ==
  <<"A","B","C","D","E","F","G","H","I","J","K","L","M",
    "N","O","P","Q","R","S","T","U","V","W","X","Y","Z">>
LowerSeq ==
  <<"a","b","c","d","e","f","g","h","i","j","k","l","m",
    "n","o","p","q","r","s","t","u","v","w","x","y","z">>
DigitSeq == <<"0","1","2","3","4","5","6","7","8","9">>

UpperLetters == {UpperSeq[i] : i \in 1..Len(UpperSeq)}
LowerLetters == {LowerSeq[i] : i \in 1..Len(LowerSeq)}
Digits == {DigitSeq[i] : i \in 1..Len(DigitSeq)}

\* unicode.IsSpace on the characters of the model
WhiteSpace == {" ", "\t", "\n", "\r"}

Rep(ch, n) == [i \in 1..n |-> ch]

Strs(A, n) == UNION {[1..k -> A] : k \in 0..n}

(***************************************************************************)
(* strings.TrimSpace, strings.ToUpper                                      *)
(***************************************************************************)
RECURSIVE TrimLeft(_)
TrimLeft(s) ==
  IF s # <<>> /\ Head(s) \in WhiteSpace THEN TrimLeft(Tail(s)) ELSE s

RECURSIVE TrimRight(_)
TrimRight(s) ==
  IF s # <<>> /\ s[Len(s)] \in WhiteSpace
    THEN TrimRight(SubSeq(s, 1, Len(s) - 1))
    ELSE s

TrimSpace(s) == TrimRight(TrimLeft(s))

ToUpperRune(r) ==
  IF r \in LowerLetters
    THEN UpperSeq[CHOOSE i \in 1..Len(LowerSeq) : LowerSeq[i] = r]
    ELSE r

ToUpper(s) == [i \in 1..Len(s) |-> ToUpperRune(s[i])]

(***************************************************************************)
(* The three compiled regular expressions                                  *)
(***************************************************************************)
\* variant: the character class without the digits, ^[A-Z]{1,11}$
validSymbolReMut(s) ==
  /\ Len(s) >= 1
  /\ Len(s) <= SymbolMaxLen
  /\ \A i \in 1..Len(s) : s[i] \in UpperLetters

\* ^[A-Z0-9]{1,11}$
validSymbolRe(s) ==
  /\ Len(s) >= 1
  /\ Len(s) <= SymbolMaxLen
  /\ \A i \in 1..Len(s) : s[i] \in UpperLetters \cup Digits

\* variant: the repetition bound off by one, {1,65}
validNameReMut(s) ==
  /\ Len(s) >= 1
  /\ Len(s) <= NameMaxLen + 1
  /\ \A i \in 1..Len(s) :
       s[i] \in UpperLetters \cup LowerLetters \cup Digits \cup {" ", "_", "-"}

\* ^[A-Za-z0-9 _\-]{1,64}$
validNameRe(s) ==
  /\ Len(s) >= 1
  /\ Len(s) <= NameMaxLen
  /\ \A i \in 1..Len(s) :
       s[i] \in UpperLetters \cup LowerLetters \cup Digits \cup {" ", "_", "-"}

\* ^\d+$
validDecimalNum(s) ==
  /\ Len(s) >= 1
  /\ \A i \in 1..Len(s) : s[i] \in Digits

(***************************************************************************)
(* math/big: Int.SetString(s, 10), Int.Cmp, Int.Sign                       *)
(* A big.Int is a sign and a magnitude; the magnitude is the digit         *)
(* sequence without leading zeros (empty for 0), of unbounded length.      *)
(***************************************************************************)
NilInt == [isNil |-> TRUE, neg |-> FALSE, mag |-> <<>>]

RECURSIVE StripZeros(_)
StripZeros(d) ==
  IF d # <<>> /\ Head(d) = "0" THEN StripZeros(Tail(d)) ELSE d

SetString(s) ==
  LET signed == s # <<>> /\ Head(s) \in {"+", "-"}
      body == IF signed THEN Tail(s) ELSE s
      mag == StripZeros(body)
  IN  IF validDecimalNum(body)
        THEN [isNil |-> FALSE,
              neg |-> signed /\ Head(s) = "-" /\ mag # <<>>,
              mag |-> mag]
        ELSE NilInt

DigitVal(ch) == (CHOOSE i \in 1..Len(DigitSeq) : DigitSeq[i] = ch) - 1

\* comparison of two equal-length digit sequences, most significant first
RECURSIVE CmpDigits(_, _)
CmpDigits(a, b) ==
  IF a = <<>> THEN 0
  ELSE IF DigitVal(Head(a)) < DigitVal(Head(b)) THEN -1
  ELSE IF DigitVal(Head(a)) > DigitVal(Head(b)) THEN 1
  ELSE CmpDigits(Tail(a), Tail(b))

\* lexicographic comparison of digit strings, as a string comparison does it
RECURSIVE CmpLex(_, _)
CmpLex(a, b) ==
  IF a = <<>> /\ b = <<>> THEN 0
  ELSE IF a = <<>> THEN -1
  ELSE IF b = <<>> THEN 1
  ELSE IF DigitVal(Head(a)) < DigitVal(Head(b)) THEN -1
  ELSE IF DigitVal(Head(a)) > DigitVal(Head(b)) THEN 1
  ELSE CmpLex(Tail(a), Tail(b))

\* variant: the magnitudes compared as strings
CmpMagMut(a, b) == CmpLex(a, b)

CmpMag(a, b) ==
  IF Len(a) < Len(b) THEN -1
  ELSE IF Len(a) > Len(b) THEN 1
  ELSE CmpDigits(a, b)

Cmp(x, y) ==
  IF x.neg /\ ~y.neg THEN -1
  ELSE IF ~x.neg /\ y.neg THEN 1
  ELSE IF x.neg THEN CmpMag(y.mag, x.mag)
  ELSE CmpMag(x.mag, y.mag)

Sign(x) == IF x.mag = <<>> THEN 0 ELSE IF x.neg THEN -1 ELSE 1

(***************************************************************************)
(* Error values: a Go error is nil or carries the messages that            *)
(* strings.Join(errs, "\n  - ") concatenates, in order.                    *)
(***************************************************************************)
NilErr == [isNil |-> TRUE, msgs |-> <<>>]

\* a message: the literal fragments of its format, and the %q argument
Msg(text, arg) == [text |-> text, arg |-> arg]

\* errors.New(strings.Join(errs, "\n  - ")) when len(errs) > 0, else nil
ErrorOf(errs) ==
  IF Len(errs) > 0 THEN [isNil |-> FALSE, msgs |-> errs] ELSE NilErr

MsgNameRequired == "token name is required"
MsgNameInvalid ==
  "token name must be 1-64 alphanumeric characters (spaces, hyphens, underscores allowed)"
MsgSymbolRequired == "token symbol is required"
MsgSymbolInvalid ==
  "token symbol must be 1-11 uppercase letters/digits (e.g. MTK, USDC)"
MsgDecimals == "decimals must be between 0 and 18"
MsgInitialPrefix == "initial supply: "
MsgMaxPrefix == "max supply: "
MsgExceeds == "initial supply cannot exceed max supply"
MsgAccess == "invalid access control type %q - must be: ownable, roles, or none"
MsgNotValid == "%q is not a valid positive integer"
MsgNotParsed == "%q cannot be parsed as an integer"
MsgNegative == "must be a non-negative integer"

\* variant: the string is only parsed, not matched against ^\d+$
validateSupplyStringParseOnly(s0) ==
  LET s == TrimSpace(s0)
      n == SetString(s)
  IN  IF n.isNil THEN <<Msg(<<MsgNotParsed>>, s)>>
      ELSE IF Sign(n) < 0 THEN <<Msg(<<MsgNegative>>, <<>>)>>
      ELSE <<>>

(***************************************************************************)
(* validateSupplyString: the returned error as a sequence of at most one   *)
(* message (empty for nil)                                                 *)
(***************************************************************************)
validateSupplyString(s0) ==
  LET s == TrimSpace(s0)
      n == SetString(s)
  IN  IF ~validDecimalNum(s) THEN <<Msg(<<MsgNotValid>>, s)>>
      ELSE IF n.isNil THEN <<Msg(<<MsgNotParsed>>, s)>>
      ELSE IF Sign(n) < 0 THEN <<Msg(<<MsgNegative>>, <<>>)>>
      ELSE <<>>

\* fmt.Sprintf(prefix + "%s", err)
Prefixed(prefix, e) ==
  [i \in 1..Len(e) |-> Msg(<<prefix>> \o e[i].text, e[i].arg)]

(***************************************************************************)
(* TokenConfig.Validate, block by block                                    *)
(***************************************************************************)
NameErrs(c) ==
  IF TrimSpace(c.Name) = <<>> THEN <<Msg(<<MsgNameRequired>>, <<>>)>>
  ELSE IF ~validNameRe(c.Name) THEN <<Msg(<<MsgNameInvalid>>, <<>>)>>
  ELSE <<>>

SymbolErrs(c) ==
  IF TrimSpace(c.Symbol) = <<>> THEN <<Msg(<<MsgSymbolRequired>>, <<>>)>>
  ELSE IF ~validSymbolRe(ToUpper(c.Symbol))
    THEN <<Msg(<<MsgSymbolInvalid>>, <<>>)>>
  ELSE <<>>

\* variant: the bound off by one
DecimalsErrsMut(c) ==
  IF c.Decimals >= MaxDecimals THEN <<Msg(<<MsgDecimals>>, <<>>)>> ELSE <<>>

DecimalsErrs(c) ==
  IF c.Decimals > MaxDecimals THEN <<Msg(<<MsgDecimals>>, <<>>)>> ELSE <<>>

InitialSupplyErrs(c) ==
  IF c.InitialSupply # <<>>
    THEN Prefixed(MsgInitialPrefix, validateSupplyString(c.InitialSupply))
    ELSE <<>>

ExceedsErrs(c) ==
  IF c.InitialSupply # <<>>
    THEN LET initial == SetString(c.InitialSupply)
             max == SetString(c.MaxSupply)
         IN  IF ~initial.isNil /\ ~max.isNil /\ Cmp(initial, max) > 0
               THEN <<Msg(<<MsgExceeds>>, <<>>)>>
               ELSE <<>>
    ELSE <<>>

MaxSupplyErrs(c) ==
  IF c.MaxSupply # <<>>
    THEN Prefixed(MsgMaxPrefix, validateSupplyString(c.MaxSupply))
           \o ExceedsErrs(c)
    ELSE <<>>

\* variant: the empty case falls through to the default case
AccessControlErrsFallthrough(c) ==
  IF c.AccessControl \in {AccessOwnable, AccessRoles, AccessNone} THEN <<>>
  ELSE <<Msg(<<MsgAccess>>, <<c.AccessControl>>)>>

\* variant: no default case
AccessControlErrsLax(c) == <<>>

AccessControlErrs(c) ==
  IF c.AccessControl \in {AccessOwnable, AccessRoles, AccessNone} THEN <<>>
  ELSE IF c.AccessControl = "" THEN <<>>
  ELSE <<Msg(<<MsgAccess>>, <<c.AccessControl>>)>>

\* variant: the access-control block placed first
ValidateErrsAccessFirst(c) ==
  AccessControlErrs(c) \o NameErrs(c) \o SymbolErrs(c) \o DecimalsErrs(c)
    \o InitialSupplyErrs(c) \o MaxSupplyErrs(c)

\* the errs slice at line 127
ValidateErrs(c) ==
  NameErrs(c) \o SymbolErrs(c) \o DecimalsErrs(c) \o InitialSupplyErrs(c)
    \o MaxSupplyErrs(c) \o AccessControlErrs(c)

\* variant: the defaults applied only when no rule is violated
ValidateNormOnSuccess(c) ==
  IF ValidateErrs(c) # <<>> THEN c
  ELSE [c EXCEPT
          !.AccessControl = IF @ = "" THEN AccessOwnable ELSE @,
          !.Snapshot = IF c.Votes /\ ~@ THEN TRUE ELSE @,
          !.License = IF @ = "" THEN DefaultLicense ELSE @,
          !.SolidityVersion = IF @ = "" THEN DefaultSolidityVersion ELSE @]

\* variant: without the Votes-Snapshot coupling
ValidateNormNoCoupling(c) ==
  [c EXCEPT
     !.AccessControl = IF @ = "" THEN AccessOwnable ELSE @,
     !.License = IF @ = "" THEN DefaultLicense ELSE @,
     !.SolidityVersion = IF @ = "" THEN DefaultSolidityVersion ELSE @]

\* variant: the symbol is stored upper-cased, as line 70 reads it
ValidateNormUpperSymbol(c) ==
  [c EXCEPT
     !.Symbol = ToUpper(@),
     !.AccessControl = IF @ = "" THEN AccessOwnable ELSE @,
     !.Snapshot = IF c.Votes /\ ~@ THEN TRUE ELSE @,
     !.License = IF @ = "" THEN DefaultLicense ELSE @,
     !.SolidityVersion = IF @ = "" THEN DefaultSolidityVersion ELSE @]

\* the receiver after the assignments of lines 106, 114, 119 and 124
ValidateNorm(c) ==
  [c EXCEPT
     !.AccessControl = IF @ = "" THEN AccessOwnable ELSE @,
     !.Snapshot = IF c.Votes /\ ~@ THEN TRUE ELSE @,
     !.License = IF @ = "" THEN DefaultLicense ELSE @,
     !.SolidityVersion = IF @ = "" THEN DefaultSolidityVersion ELSE @]

ValidateResult(c) == [cfg |-> ValidateNorm(c), err |-> ErrorOf(ValidateErrs(c))]

(***************************************************************************)
(* ContractFileName, SafeName                                              *)
(* A rune outside ASCII is written by its code point.                      *)
(***************************************************************************)
\* U+00E9 (e acute) is a letter, U+0663 (Arabic-Indic three) a digit,
\* U+20AC (euro sign) neither
OtherLetters == {"U+00E9"}
OtherDigits == {"U+0663"}

IsLetter(r) == r \in UpperLetters \cup LowerLetters \cup OtherLetters
IsDigit(r) == r \in Digits \cup OtherDigits

\* variant: only letters are kept
SafeNameLettersOnly(c) ==
  [i \in 1..Len(c.Name) |-> IF IsLetter(c.Name[i]) THEN c.Name[i] ELSE "_"]

\* variant: the replaced characters are dropped
SafeNameDrop(c) ==
  SelectSeq(c.Name, LAMBDA r : IsLetter(r) \/ IsDigit(r))

SafeName(c) ==
  [i \in 1..Len(c.Name) |->
     IF IsLetter(c.Name[i]) \/ IsDigit(c.Name[i]) THEN c.Name[i] ELSE "_"]

ContractFileName(c) == SafeName(c) \o <<".", "s", "o", "l">>

(***************************************************************************)
(* HasAccessControl, NeedsOwnable, NeedsRoles, ImportPaths,                *)
(* InheritanceList                                                         *)
(***************************************************************************)
HasAccessControl(c) == c.AccessControl # AccessNone

\* variant: HasAccessControl used for NeedsOwnable
NeedsOwnableMut(c) == c.AccessControl # AccessNone

NeedsOwnable(c) == c.AccessControl = AccessOwnable

NeedsRoles(c) == c.AccessControl = AccessRoles

ImpBase == "@openzeppelin/contracts/token/ERC20/ERC20.sol"
ImpBurnable == "@openzeppelin/contracts/token/ERC20/extensions/ERC20Burnable.sol"
ImpPausable == "@openzeppelin/contracts/token/ERC20/extensions/ERC20Pausable.sol"
ImpPausableUtil == "@openzeppelin/contracts/utils/Pausable.sol"
ImpPermit == "@openzeppelin/contracts/token/ERC20/extensions/ERC20Permit.sol"
ImpSnapshot == "@openzeppelin/contracts/token/ERC20/extensions/ERC20Snapshot.sol"
ImpVotes == "@openzeppelin/contracts/token/ERC20/extensions/ERC20Votes.sol"
ImpCapped == "@openzeppelin/contracts/token/ERC20/extensions/ERC20Capped.sol"
ImpOwnable == "@openzeppelin/contracts/access/Ownable.sol"
ImpAccessControl == "@openzeppelin/contracts/access/AccessControl.sol"

\* if cond { list = append(list, entries...) }
AppendIf(cond, entries) == IF cond THEN entries ELSE <<>>

\* variant: the capped entry appended first, as in InheritanceList
ImportPathsCappedFirst(c) ==
  <<ImpBase>>
    \o AppendIf(c.MaxSupply # <<>>, <<ImpCapped>>)
    \o AppendIf(c.Burnable, <<ImpBurnable>>)
    \o AppendIf(c.Pausable, <<ImpPausable, ImpPausableUtil>>)
    \o AppendIf(c.Permit, <<ImpPermit>>)
    \o AppendIf(c.Snapshot, <<ImpSnapshot>>)
    \o AppendIf(c.Votes, <<ImpVotes>>)
    \o AppendIf(NeedsOwnable(c), <<ImpOwnable>>)
    \o AppendIf(NeedsRoles(c), <<ImpAccessControl>>)

\* variant: without the import of utils/Pausable.sol
ImportPathsNoPausableUtil(c) ==
  <<ImpBase>>
    \o AppendIf(c.Burnable, <<ImpBurnable>>)
    \o AppendIf(c.Pausable, <<ImpPausable>>)
    \o AppendIf(c.Permit, <<ImpPermit>>)
    \o AppendIf(c.Snapshot, <<ImpSnapshot>>)
    \o AppendIf(c.Votes, <<ImpVotes>>)
    \o AppendIf(c.MaxSupply # <<>>, <<ImpCapped>>)
    \o AppendIf(NeedsOwnable(c), <<ImpOwnable>>)
    \o AppendIf(NeedsRoles(c), <<ImpAccessControl>>)

ImportPaths(c) ==
  <<ImpBase>>
    \o AppendIf(c.Burnable, <<ImpBurnable>>)
    \o AppendIf(c.Pausable, <<ImpPausable, ImpPausableUtil>>)
    \o AppendIf(c.Permit, <<ImpPermit>>)
    \o AppendIf(c.Snapshot, <<ImpSnapshot>>)
    \o AppendIf(c.Votes, <<ImpVotes>>)
    \o AppendIf(c.MaxSupply # <<>>, <<ImpCapped>>)
    \o AppendIf(NeedsOwnable(c), <<ImpOwnable>>)
    \o AppendIf(NeedsRoles(c), <<ImpAccessControl>>)

\* variant: the capped entry appended after Votes, as in ImportPaths
InheritanceListCappedLate(c) ==
  AppendIf(c.Burnable, <<"ERC20Burnable">>)
    \o AppendIf(c.Pausable, <<"ERC20Pausable">>)
    \o AppendIf(c.Permit, <<"ERC20Permit">>)
    \o AppendIf(c.Snapshot, <<"ERC20Snapshot">>)
    \o AppendIf(c.Votes, <<"ERC20Votes">>)
    \o AppendIf(c.MaxSupply # <<>>, <<"ERC20Capped">>)
    \o AppendIf(NeedsOwnable(c), <<"Ownable">>)
    \o AppendIf(NeedsRoles(c), <<"AccessControl">>)

\* variant: the capped entry only for a mintable token
InheritanceListCapIfMintable(c) ==
  AppendIf(c.MaxSupply # <<>> /\ c.Mintable, <<"ERC20Capped">>)
    \o AppendIf(c.Burnable, <<"ERC20Burnable">>)
    \o AppendIf(c.Pausable, <<"ERC20Pausable">>)
    \o AppendIf(c.Permit, <<"ERC20Permit">>)
    \o AppendIf(c.Snapshot, <<"ERC20Snapshot">>)
    \o AppendIf(c.Votes, <<"ERC20Votes">>)
    \o AppendIf(NeedsOwnable(c), <<"Ownable">>)
    \o AppendIf(NeedsRoles(c), <<"AccessControl">>)

InheritanceList(c) ==
  AppendIf(c.MaxSupply # <<>>, <<"ERC20Capped">>)
    \o AppendIf(c.Burnable, <<"ERC20Burnable">>)
    \o AppendIf(c.Pausable, <<"ERC20Pausable">>)
    \o AppendIf(c.Permit, <<"ERC20Permit">>)
    \o AppendIf(c.Snapshot, <<"ERC20Snapshot">>)
    \o AppendIf(c.Votes, <<"ERC20Votes">>)
    \o AppendIf(NeedsOwnable(c), <<"Ownable">>)
    \o AppendIf(NeedsRoles(c), <<"AccessControl">>)

(***************************************************************************)
(* Configurations the program can be handed (cmd/generate.go               *)
(* buildConfigFromFlags: every field is a free flag value)                 *)
(***************************************************************************)
TestToken == <<"T","e","s","t","T","o","k","e","n">>
TST == <<"T","S","T">>
Million == <<"1","0","0","0","0","0","0">>

\* baseConfig() of the test file
BaseConfig ==
  [Name |-> TestToken, Symbol |-> TST, Decimals |-> 18,
   InitialSupply |-> Million, MaxSupply |-> <<>>,
   Mintable |-> FALSE, Burnable |-> FALSE, Pausable |-> FALSE,
   Permit |-> FALSE, Snapshot |-> FALSE, Votes |-> FALSE,
   AccessControl |-> AccessOwnable,
   License |-> DefaultLicense, SolidityVersion |-> DefaultSolidityVersion,
   WithDeploy |-> FALSE, WithTest |-> FALSE]

NameInputs ==
  {<<>>, <<" ">>, <<"\t", " ">>, TestToken, <<"M","y"," ","T","-","_","1">>,
   <<"T","!">>, <<" ","T">>, Rep("a", NameMaxLen), Rep("a", NameMaxLen + 1)}

SymAlphabet == {"A", "a", "7", " ", "-"}

SymbolInputs ==
  Strs(SymAlphabet, MaxSymLen)
    \cup {p \o Rep("Z", k) :
            p \in Strs(SymAlphabet, 1),
            k \in (SymbolMaxLen - 2)..(SymbolMaxLen + 1)}
    \cup {TST, <<"m","t","k">>, <<"M","T"," ","K">>, <<"M","T","K","\n">>,
          <<"U","S","D","C">>, <<"T","O","K","E","N","1","2","3">>,
          <<"T","O","O","L","O","N","G","S","Y","M","B","O","L">>}

DecimalsInputs == 0..MaxUint8

\* 2^64 = 18446744073709551616
TwoTo64 ==
  <<"1","8","4","4","6","7","4","4","0","7",
    "3","7","0","9","5","5","1","6","1","6">>
TwoTo64Plus1 ==
  <<"1","8","4","4","6","7","4","4","0","7",
    "3","7","0","9","5","5","1","6","1","7">>

DigitSupplies ==
  (Strs({"0", "1", "9"}, MaxSupplyLen) \ {<<>>})
    \cup {<<"0","1","0","0">>, <<"9","9">>, Million,
          TwoTo64, TwoTo64Plus1, Rep("9", 20), <<"1">> \o Rep("0", 20)}

SupplyInputs ==
  DigitSupplies
    \cup {<<>>, <<" ","9">>, <<"9"," ">>, <<"+","9">>, <<"-","1">>,
          <<"-","0">>, <<"1",".","5">>, <<"a","b","c">>, <<" ">>,
          <<"1","_","0">>}

AccessInputs == {"", AccessOwnable, AccessRoles, AccessNone,
                 "superadmin", "Ownable"}
LicenseInputs == {"", DefaultLicense, "GPL-3.0"}
VersionInputs == {"", DefaultSolidityVersion, "^0.8.20"}

\* every combination of satisfied and violated rules
CrossConfigs ==
  {[BaseConfig EXCEPT
      !.Name = n, !.Symbol = s, !.Decimals = d,
      !.InitialSupply = i, !.MaxSupply = m, !.AccessControl = a,
      !.Votes = v, !.Snapshot = sn, !.License = l, !.SolidityVersion = l2] :
     n \in {TestToken, <<>>, <<"T","!">>},
     s \in {TST, <<>>, <<"m","t","k">>, <<"M","T"," ","K">>},
     d \in {MaxDecimals, MaxDecimals + 1},
     i \in {<<>>, <<"1","0">>, <<"+","9">>},
     m \in {<<>>, <<"9">>, <<"9","9">>, <<"-","1">>},
     a \in {"", AccessOwnable, AccessNone, "superadmin"},
     v \in BOOLEAN, sn \in BOOLEAN,
     l \in {"", "GPL-3.0"}, l2 \in {"", "^0.8.20"}}

SymbolConfigs ==
  {[BaseConfig EXCEPT
      !.Symbol = s, !.Name = n, !.Decimals = d, !.AccessControl = a] :
     s \in SymbolInputs, n \in {TestToken, <<>>},
     d \in {MaxDecimals, MaxDecimals + 1},
     a \in {AccessOwnable, "superadmin"}}

NameConfigs ==
  {[BaseConfig EXCEPT !.Name = n, !.Symbol = s] :
     n \in NameInputs, s \in {TST, <<>>}}

DecimalsConfigs ==
  {[BaseConfig EXCEPT !.Decimals = d, !.Symbol = s, !.AccessControl = a] :
     d \in DecimalsInputs, s \in {TST, <<>>}, a \in {"", "superadmin"}}

SupplyConfigs ==
  {[BaseConfig EXCEPT !.InitialSupply = i, !.MaxSupply = m, !.Name = n] :
     i \in SupplyInputs, m \in SupplyInputs, n \in {TestToken, <<>>}}

AccessConfigs ==
  {[BaseConfig EXCEPT
      !.AccessControl = a, !.License = l, !.SolidityVersion = l2,
      !.Votes = v, !.Snapshot = sn, !.Symbol = s] :
     a \in AccessInputs, l \in LicenseInputs, l2 \in VersionInputs,
     v \in BOOLEAN, sn \in BOOLEAN, s \in {TST, <<>>}}

Configs ==
  CrossConfigs \cup SymbolConfigs \cup NameConfigs \cup DecimalsConfigs
    \cup SupplyConfigs \cup AccessConfigs

(***************************************************************************)
(* The query state before any query                                        *)
(***************************************************************************)
NoStrings == [name |-> <<>>, file |-> <<>>]

NoQueries ==
  [nImp |-> 0, nInh |-> 0, nSafe |-> 0, nFile |-> 0,
   cfg |-> BaseConfig, imports |-> <<>>, inherit |-> <<>>]

NoPeer == [cfg |-> BaseConfig, err |-> NilErr, validated |-> FALSE,
           named |-> FALSE, name |-> <<>>]

NoFlags == [prompt |-> FALSE, withDeploy |-> FALSE, withTest |-> FALSE]

EmptyDisk == [dirs |-> {}, files |-> {}]

\* generator.go line 12-13: the files embedded under templates/
AllTemplates == {"contract.sol.tmpl", "deploy.js.tmpl", "test.js.tmpl"}

\* config.go lines 50-54: the compiled patterns
CompiledRegexps ==
  [validSymbolRe |-> "^[A-Z0-9]{1,11}$",
   validNameRe |-> "^[A-Za-z0-9 _\\-]{1,64}$",
   validDecimalNum |-> "^\\d+$"]

PackageState == [templatesFS |-> AllTemplates, regexps |-> CompiledRegexps]

Requests == {1, 2}

\* a request that has called nothing; gen is the Generator's cfg pointer,
\* 0 for no Generator
NoRequest ==
  [input |-> BaseConfig, cfg |-> BaseConfig, err |-> NilErr, pc |-> 0,
   gen |-> 0, imports |-> <<>>, inherit |-> <<>>, safe |-> <<>>,
   contract |-> [text |-> <<>>, err |-> "not called"],
   deploy |-> [text |-> <<>>, err |-> "not called"],
   test |-> [text |-> <<>>, err |-> "not called"]]

ConcIdle ==
  /\ reqs = [i \in Requests |-> NoRequest]
  /\ shared = PackageState

\* runGenerate is not running
RunIdle ==
  /\ pc = "idle"
  /\ ret = ""
  /\ flags = NoFlags
  /\ fs = EmptyDisk
  /\ log = <<>>

ListIdle ==
  /\ imports = <<>>
  /\ inherit = <<>>
  /\ safe = NoStrings
  /\ peer = NoPeer
  /\ q = NoQueries

(***************************************************************************)
(* State machine: a configuration is constructed, then Validate is called  *)
(* on it, possibly again.  input is the configuration as constructed,      *)
(* first the outcome of the first call.                                    *)
(***************************************************************************)
Init ==
  /\ cfg \in Configs
  /\ input = cfg
  /\ err = NilErr
  /\ calls = 0
  /\ first = [cfg |-> cfg, err |-> NilErr]
  /\ ListIdle
  /\ RunIdle
  /\ ConcIdle

Validate ==
  /\ calls < MaxCalls
  /\ LET r == ValidateResult(cfg)
     IN  /\ cfg' = r.cfg
         /\ err' = r.err
         /\ first' = IF calls = 0 THEN r ELSE first
  /\ calls' = calls + 1
  /\ UNCHANGED <<input, listVars, runVars, concVars>>

Next == Validate

Spec == Init /\ [][Next]_vars

(***************************************************************************)
(* State machine of the composition rules: a configuration is              *)
(* constructed, possibly validated, and then queried any number of times   *)
(* in any order, as the tests and the templates do.                        *)
(***************************************************************************)
TenMillion == <<"1","0","0","0","0","0","0","0">>

ListConfigs ==
  {[BaseConfig EXCEPT
      !.Mintable = f[1], !.Burnable = f[2], !.Pausable = f[3],
      !.Permit = f[4], !.Snapshot = f[5], !.Votes = f[6],
      !.AccessControl = a, !.InitialSupply = sp[1], !.MaxSupply = sp[2]] :
     f \in [1..6 -> BOOLEAN],
     a \in {"", AccessOwnable, AccessRoles, AccessNone, "superadmin"},
     sp \in {<<i, m>> : i \in {<<>>, Million},
                        m \in {<<>>, <<"9">>, TenMillion}}}

NoQueryYet == q.nImp + q.nInh + q.nSafe + q.nFile = 0

\* the history record after one more query
Counted(field, firstImports, firstInherit) ==
  [q EXCEPT
     ![field] = @ + 1,
     !.cfg = IF NoQueryYet THEN cfg ELSE @,
     !.imports = IF field = "nImp" /\ q.nImp = 0 THEN firstImports ELSE @,
     !.inherit = IF field = "nInh" /\ q.nInh = 0 THEN firstInherit ELSE @]

InitLists ==
  /\ cfg \in ListConfigs
  /\ input = cfg
  /\ err = NilErr
  /\ calls = 0
  /\ first = [cfg |-> cfg, err |-> NilErr]
  /\ ListIdle
  /\ RunIdle
  /\ ConcIdle

ValidateBeforeQueries ==
  /\ NoQueryYet
  /\ Validate

\* variant: the slice is a package-level variable that is never reset
CallImportPathsAppend ==
  /\ q.nImp < MaxQueries
  /\ imports' = imports \o ImportPaths(cfg)
  /\ q' = Counted("nImp", imports', <<>>)
  /\ UNCHANGED <<runVars, concVars, cfg, input, err, calls, first, inherit, safe, peer>>

CallImportPaths ==
  /\ q.nImp < MaxQueries
  /\ imports' = ImportPaths(cfg)
  /\ q' = Counted("nImp", imports', <<>>)
  /\ UNCHANGED <<runVars, concVars, cfg, input, err, calls, first, inherit, safe, peer>>

CallInheritanceList ==
  /\ q.nInh < MaxQueries
  /\ inherit' = InheritanceList(cfg)
  /\ q' = Counted("nInh", <<>>, inherit')
  /\ UNCHANGED <<runVars, concVars, cfg, input, err, calls, first, imports, safe, peer>>

NextLists == ValidateBeforeQueries \/ CallImportPaths \/ CallInheritanceList

SpecLists == InitLists /\ [][NextLists]_vars

(***************************************************************************)
(* State machine of the naming helpers: two tokens, each with its own      *)
(* configuration, as a host generating several tokens has them.            *)
(***************************************************************************)
NameAlphabet == {"T", "1", " ", "-", "U+00E9"}

MyToken == <<"M","y","T","o","k","e","n">>
My_Token == <<"M","y","_","T","o","k","e","n">>
MySpaceToken == <<"M","y"," ","T","o","k","e","n">>
MyHyphenToken == <<"M","y","-","T","o","k","e","n">>

QueryNames ==
  Strs(NameAlphabet, MaxNameLen)
    \cup {MyToken, MySpaceToken, MyHyphenToken, <<"T", "!">>,
          <<"U+20AC", "U+0663">>, <<"T", "_">>}

PeerNames ==
  {<<"T">>, <<"1">>, <<"-">>, <<"T", "-">>, <<"T", "1">>, <<"-", " ">>,
   My_Token, <<"T", "U+00E9">>}

InitNames ==
  /\ cfg \in {[BaseConfig EXCEPT !.Name = n] : n \in QueryNames}
  /\ input = cfg
  /\ err = NilErr
  /\ calls = 0
  /\ first = [cfg |-> cfg, err |-> NilErr]
  /\ imports = <<>>
  /\ inherit = <<>>
  /\ safe = NoStrings
  /\ q = NoQueries
  /\ peer \in {[NoPeer EXCEPT !.cfg = [BaseConfig EXCEPT !.Name = n]] :
                 n \in PeerNames}
  /\ RunIdle
  /\ ConcIdle

CallSafeName ==
  /\ q.nSafe < MaxQueries
  /\ safe' = [safe EXCEPT !.name = SafeName(cfg)]
  /\ q' = Counted("nSafe", <<>>, <<>>)
  /\ UNCHANGED <<runVars, concVars, cfg, input, err, calls, first, imports, inherit, peer>>

CallContractFileName ==
  /\ q.nFile < MaxQueries
  /\ safe' = [safe EXCEPT !.file = ContractFileName(cfg)]
  /\ q' = Counted("nFile", <<>>, <<>>)
  /\ UNCHANGED <<runVars, concVars, cfg, input, err, calls, first, imports, inherit, peer>>

PeerValidate ==
  /\ ~peer.validated
  /\ ~peer.named
  /\ LET r == ValidateResult(peer.cfg)
     IN  peer' = [peer EXCEPT !.cfg = r.cfg, !.err = r.err,
                              !.validated = TRUE]
  /\ UNCHANGED <<runVars, concVars, cfg, input, err, calls, first, imports, inherit, safe, q>>

PeerSafeName ==
  /\ ~peer.named
  /\ peer' = [peer EXCEPT !.named = TRUE, !.name = SafeName(peer.cfg)]
  /\ UNCHANGED <<runVars, concVars, cfg, input, err, calls, first, imports, inherit, safe, q>>

NextNames ==
  \/ ValidateBeforeQueries
  \/ PeerValidate
  \/ CallSafeName
  \/ CallContractFileName
  \/ PeerSafeName

SpecNames == InitNames /\ [][NextNames]_vars

(***************************************************************************)
(* State machine of cmd/generate.go runGenerate.  The configuration comes  *)
(* from the prompts or from the flags; creating a directory, rendering a   *)
(* template and writing a file each succeed or fail as the environment     *)
(* decides.                                                                *)
(***************************************************************************)
\* A rendered text is a sequence of lines, a line a sequence of fragments.
\* The files under templates/ are embedded at build time; their content is
\* taken from the artifact descriptions of the specification, the
\* generator tests and the README example.

\* the modifier of a guarded function
Guard(c, role) ==
  IF NeedsOwnable(c) THEN <<" ", "onlyOwner">>
  ELSE IF NeedsRoles(c) THEN <<" ", "onlyRole", "(", role, ")">>
  ELSE <<>>

ImportLines(c) ==
  [i \in 1..Len(ImportPaths(c)) |-> <<"import \"", ImportPaths(c)[i], "\";">>]

InheritanceClause(c) ==
  LET l == InheritanceList(c)
      F[i \in 0..Len(l)] ==
        IF i = 0 THEN <<>> ELSE F[i - 1] \o <<", ", l[i]>>
  IN  F[Len(l)]

\* templates/contract.sol.tmpl executed on c
ContractTemplate(c) ==
  << <<"// SPDX-License-Identifier: ", c.License>>,
     <<"pragma solidity ", c.SolidityVersion, ";">> >>
    \o ImportLines(c)
    \o << <<"contract ">> \o c.Name \o <<" is ERC20">>
             \o InheritanceClause(c) \o <<" {">> >>
    \o AppendIf(c.Mintable /\ NeedsRoles(c),
                << <<"bytes32 public constant ", "MINTER_ROLE">> >>)
    \o AppendIf(c.Pausable /\ NeedsRoles(c),
                << <<"bytes32 public constant ", "PAUSER_ROLE">> >>)
    \o << <<"constructor", "ERC20(\"">> \o c.Name \o <<"\", \"">>
             \o c.Symbol \o <<"\")">> >>
    \o AppendIf(c.InitialSupply # <<>>,
                << <<"_mint(", "msg.sender, ">> \o c.InitialSupply
                     \o <<" * 10 ** decimals());">> >>)
    \o AppendIf(c.Decimals # 18,
                << <<"function decimals()", " public pure override">>,
                   <<"return ", ToString(c.Decimals), ";">> >>)
    \o AppendIf(c.Mintable,
                << <<"function mint(", "address to, uint256 amount) external">>
                     \o Guard(c, "MINTER_ROLE"),
                   <<"_mint(", "to, amount);">> >>)
    \o AppendIf(c.Pausable,
                << <<"function pause()", " external">>
                     \o Guard(c, "PAUSER_ROLE"),
                   <<"function unpause()", " external">>
                     \o Guard(c, "PAUSER_ROLE") >>)

\* templates/deploy.js.tmpl executed on c
DeployTemplate(c) ==
  << <<"const { ethers } = require(\"hardhat\")">>,
     <<"deployer.address">>,
     <<"getContractFactory(\"">> \o c.Name \o <<"\")">>,
     <<"deploy(">> \o c.InitialSupply \o <<")">>,
     <<"waitForDeployment">> >>

\* templates/test.js.tmpl executed on c
TestTemplate(c) ==
  << <<"describe(\"">> \o c.Name \o <<"\"">>,
     <<"deployFixture">>,
     <<"Should have correct name and symbol">>,
     <<"\"">> \o c.Name \o <<"\"">>,
     <<"\"">> \o c.Symbol \o <<"\"">> >>
    \o AppendIf(c.Mintable,
                << <<"Minting">>, <<"authorized minting">>,
                   <<"unauthorized minting">> >>)
    \o AppendIf(c.Pausable, << <<"Pausable">>, <<"paused">> >>)

TemplateText(tmpl, c) ==
  IF tmpl = "contract.sol.tmpl" THEN ContractTemplate(c)
  ELSE IF tmpl = "deploy.js.tmpl" THEN DeployTemplate(c)
  ELSE TestTemplate(c)

\* a Generate* call that has not been made
NotRendered == [text |-> <<>>, err |-> "not called"]

\* variant: the text carries the number of renderings the process has made
RenderStamped(fsys, tmpl, c) ==
  IF tmpl \notin fsys THEN [text |-> <<>>, err |-> "template error"]
  ELSE [text |-> Append(TemplateText(tmpl, c),
                        <<"// rendering ",
                          ToString(Cardinality(
                            {x \in Requests \X {"contract", "deploy", "test"} :
                               reqs[x[1]][x[2]] # NotRendered}))>>),
        err |-> "nil"]

\* variant: the buffer is returned before the template is executed
RenderEmpty(fsys, tmpl, c) ==
  IF tmpl \notin fsys THEN [text |-> <<>>, err |-> "template error"]
  ELSE [text |-> <<>>, err |-> "nil"]

\* the body the three Generate* methods share: ParseFS on the embedded
\* files, ExecuteTemplate on the configuration the Generator points to,
\* buf.String()
Render(fsys, tmpl, c) ==
  IF tmpl \notin fsys THEN [text |-> <<>>, err |-> "template error"]
  ELSE [text |-> TemplateText(tmpl, c), err |-> "nil"]

\* variant: the contract is rendered from the deploy script's template
GenerateContractWrongTemplate(c) ==
  Render(shared.templatesFS, "deploy.js.tmpl", c)

GenerateContract(c) == Render(shared.templatesFS, "contract.sol.tmpl", c)
GenerateDeployScript(c) == Render(shared.templatesFS, "deploy.js.tmpl", c)
GenerateTestSkeleton(c) == Render(shared.templatesFS, "test.js.tmpl", c)

\* filepath.Join(outDir, ...): the directory and the file name
ContractPath(c) == [dir |-> "out", file |-> ContractFileName(c)]

\* variant: the deploy script is written to the contract's path
DeployPathOfContract(c) == ContractPath(c)

DeployPath(c) ==
  [dir |-> "out/../scripts",
   file |-> <<"d","e","p","l","o","y","_">> \o SafeName(c) \o <<".","j","s">>]
TestPath(c) ==
  [dir |-> "out/../test",
   file |-> SafeName(c) \o <<".","t","e","s","t",".","j","s">>]

\* os.WriteFile(path, text, 0640) succeeding
Written(path, text) ==
  [dirs |-> fs.dirs,
   files |-> {f \in fs.files : f.path # path}
               \cup {[path |-> path, text |-> text]}]

\* os.WriteFile fails before the file is created, or after it was created
\* and truncated, or succeeds
Outcomes == {"ok", "write fails", "write fails partway"}

\* the builds: every template embedded and parsable, or one of them not
Builds == {AllTemplates} \cup {AllTemplates \ {t} : t \in AllTemplates}

RunConfigs ==
  {[BaseConfig EXCEPT
      !.Name = n, !.Symbol = sy, !.AccessControl = a, !.MaxSupply = m,
      !.Votes = v, !.WithDeploy = wd, !.WithTest = wt] :
     n \in {TestToken, MySpaceToken, <<>>},
     sy \in {TST, <<>>},
     a \in {"", AccessRoles, "superadmin"},
     m \in {<<>>, <<"9">>, TenMillion},
     v \in BOOLEAN, wd \in BOOLEAN, wt \in BOOLEAN}

\* buildConfigFromFlags copies --with-deploy and --with-test into the
\* configuration; the prompts set the two fields from the answers
RunFlags(c) ==
  {f \in [prompt : BOOLEAN, withDeploy : BOOLEAN, withTest : BOOLEAN] :
     ~f.prompt => f.withDeploy = c.WithDeploy /\ f.withTest = c.WithTest}

InitRun ==
  /\ cfg \in RunConfigs
  /\ input = cfg
  /\ err = NilErr
  /\ calls = 0
  /\ first = [cfg |-> cfg, err |-> NilErr]
  /\ ListIdle
  /\ pc = "start"
  /\ ret = ""
  /\ flags \in RunFlags(cfg)
  /\ fs = EmptyDisk
  /\ log = <<>>
  /\ reqs = [i \in Requests |-> NoRequest]
  /\ shared \in {[PackageState EXCEPT !.templatesFS = b] : b \in Builds}

\* lines 68-83: prompts.CollectTokenConfig may fail, buildConfigFromFlags
\* does not
RunCollect ==
  /\ pc = "start"
  /\ \/ /\ flags.prompt
        /\ pc' = "returned"
        /\ ret' = "prompt error"
     \/ /\ pc' = "validate"
        /\ ret' = ret
  /\ UNCHANGED <<cfg, input, err, calls, first, listVars, concVars, flags, fs, log>>

\* variant: the error of Validate is dropped
RunValidateIgnoreErr ==
  /\ pc = "validate"
  /\ LET r == ValidateResult(cfg)
     IN  /\ cfg' = r.cfg
         /\ err' = r.err
         /\ first' = IF calls = 0 THEN r ELSE first
         /\ pc' = "mkdir"
         /\ ret' = ret
  /\ calls' = calls + 1
  /\ UNCHANGED <<input, listVars, concVars, flags, fs, log>>

\* lines 85-88
RunValidate ==
  /\ pc = "validate"
  /\ LET r == ValidateResult(cfg)
     IN  /\ cfg' = r.cfg
         /\ err' = r.err
         /\ first' = IF calls = 0 THEN r ELSE first
         /\ pc' = IF r.err.isNil THEN "mkdir" ELSE "returned"
         /\ ret' = IF r.err.isNil THEN ret ELSE "validation error"
  /\ calls' = calls + 1
  /\ UNCHANGED <<input, listVars, concVars, flags, fs, log>>

\* lines 90-96
RunMkdir ==
  /\ pc = "mkdir"
  /\ log' = Append(log, "MkdirAll out")
  /\ \/ /\ fs' = [fs EXCEPT !.dirs = @ \cup {"out"}]
        /\ pc' = "contract"
        /\ ret' = ret
     \/ /\ fs' = fs
        /\ pc' = "returned"
        /\ ret' = "failed to create output directory"
  /\ UNCHANGED <<cfg, input, err, calls, first, listVars, concVars, flags>>

\* lines 98-107
RunContract(o) ==
  /\ pc = "contract"
  /\ LET g == GenerateContract(cfg)
     IN  IF g.err # "nil"
           THEN /\ o = "ok"
                /\ log' = Append(log, "GenerateContract")
                /\ fs' = fs
                /\ pc' = "returned"
                /\ ret' = "contract generation failed"
         ELSE IF o = "ok"
           THEN /\ log' = log \o <<"GenerateContract", "WriteFile contract">>
                /\ fs' = Written(ContractPath(cfg), g.text)
                /\ pc' = "deploy"
                /\ ret' = ret
         ELSE /\ log' = log \o <<"GenerateContract", "WriteFile contract">>
              /\ fs' = IF o = "write fails" THEN fs
                       ELSE Written(ContractPath(cfg), <<>>)
              /\ pc' = "returned"
              /\ ret' = "failed to write contract"
  /\ UNCHANGED <<cfg, input, err, calls, first, listVars, concVars, flags>>

\* variant: only the flag is read, not the configuration's field
WantDeployFlagOnly == flags.withDeploy

\* line 111
WantDeploy == cfg.WithDeploy \/ flags.withDeploy

\* line 126
WantTest == cfg.WithTest \/ flags.withTest

\* lines 109-122; the error of os.MkdirAll is discarded, and the file can
\* only be written into a directory that exists
RunDeploy(o, made) ==
  /\ pc = "deploy"
  /\ IF ~WantDeploy
       THEN /\ o = "ok"
            /\ ~made
            /\ log' = log
            /\ fs' = fs
            /\ pc' = "test"
            /\ ret' = ret
       ELSE LET dirs == IF made THEN fs.dirs \cup {DeployPath(cfg).dir}
                        ELSE fs.dirs
                g == GenerateDeployScript(cfg)
            IN  IF g.err # "nil"
                  THEN /\ o = "ok"
                       /\ log' = log \o <<"MkdirAll scripts",
                                         "GenerateDeployScript">>
                       /\ fs' = [fs EXCEPT !.dirs = dirs]
                       /\ pc' = "returned"
                       /\ ret' = "deploy script generation failed"
                ELSE IF o = "ok" /\ DeployPath(cfg).dir \in dirs
                  THEN /\ log' = log \o <<"MkdirAll scripts",
                                         "GenerateDeployScript",
                                         "WriteFile deploy">>
                       /\ fs' = [Written(DeployPath(cfg), g.text)
                                   EXCEPT !.dirs = dirs]
                       /\ pc' = "test"
                       /\ ret' = ret
                ELSE /\ log' = log \o <<"MkdirAll scripts",
                                       "GenerateDeployScript",
                                       "WriteFile deploy">>
                     /\ fs' = IF o = "write fails partway"
                                  /\ DeployPath(cfg).dir \in dirs
                                THEN [Written(DeployPath(cfg), <<>>)
                                        EXCEPT !.dirs = dirs]
                              ELSE [fs EXCEPT !.dirs = dirs]
                     /\ pc' = "returned"
                     /\ ret' = "failed to write deploy script"
  /\ UNCHANGED <<cfg, input, err, calls, first, listVars, concVars, flags>>

\* lines 124-137
RunTest(o, made) ==
  /\ pc = "test"
  /\ IF ~WantTest
       THEN /\ o = "ok"
            /\ ~made
            /\ log' = log
            /\ fs' = fs
            /\ pc' = "checklist"
            /\ ret' = ret
       ELSE LET dirs == IF made THEN fs.dirs \cup {TestPath(cfg).dir}
                        ELSE fs.dirs
                g == GenerateTestSkeleton(cfg)
            IN  IF g.err # "nil"
                  THEN /\ o = "ok"
                       /\ log' = log \o <<"MkdirAll test",
                                         "GenerateTestSkeleton">>
                       /\ fs' = [fs EXCEPT !.dirs = dirs]
                       /\ pc' = "returned"
                       /\ ret' = "test skeleton generation failed"
                ELSE IF o = "ok" /\ TestPath(cfg).dir \in dirs
                  THEN /\ log' = log \o <<"MkdirAll test",
                                         "GenerateTestSkeleton",
                                         "WriteFile test">>
                       /\ fs' = [Written(TestPath(cfg), g.text)
                                   EXCEPT !.dirs = dirs]
                       /\ pc' = "checklist"
                       /\ ret' = ret
                ELSE /\ log' = log \o <<"MkdirAll test",
                                       "GenerateTestSkeleton",
                                       "WriteFile test">>
                     /\ fs' = IF o = "write fails partway"
                                  /\ TestPath(cfg).dir \in dirs
                                THEN [Written(TestPath(cfg), <<>>)
                                        EXCEPT !.dirs = dirs]
                              ELSE [fs EXCEPT !.dirs = dirs]
                     /\ pc' = "returned"
                     /\ ret' = "failed to write test skeleton"
  /\ UNCHANGED <<cfg, input, err, calls, first, listVars, concVars, flags>>

\* variant: the checklist stores the safe name back into the configuration
RunChecklistRenames ==
  /\ pc = "checklist"
  /\ log' = Append(log, "printSecurityChecklist")
  /\ pc' = "returned"
  /\ ret' = "nil"
  /\ cfg' = [cfg EXCEPT !.Name = SafeName(cfg)]
  /\ UNCHANGED <<input, err, calls, first, listVars, concVars, flags, fs>>

\* lines 139-141
RunChecklist ==
  /\ pc = "checklist"
  /\ log' = Append(log, "printSecurityChecklist")
  /\ pc' = "returned"
  /\ ret' = "nil"
  /\ UNCHANGED <<cfg, input, err, calls, first, listVars, concVars, flags, fs>>

NextRun ==
  \/ RunCollect
  \/ RunValidate
  \/ RunMkdir
  \/ \E o \in Outcomes : RunContract(o)
  \/ \E o \in Outcomes, made \in BOOLEAN : RunDeploy(o, made)
  \/ \E o \in Outcomes, made \in BOOLEAN : RunTest(o, made)
  \/ RunChecklist

SpecRun == InitRun /\ [][NextRun]_vars

(***************************************************************************)
(* State machine of a host process serving two generation requests at      *)
(* once.  Each request owns its TokenConfig and goes through Validate,     *)
(* ImportPaths, InheritanceList, SafeName, generator.New and the three     *)
(* Generate* methods; the steps of the two requests interleave freely.  A  *)
(* Generator holds a pointer to a request's configuration, and the         *)
(* package-level variables are shared by both requests.                    *)
(***************************************************************************)
ConcConfigs ==
  {[BaseConfig EXCEPT
      !.Mintable = m, !.Pausable = p, !.AccessControl = a, !.Decimals = d] :
     m \in BOOLEAN, p \in BOOLEAN,
     a \in {"", AccessOwnable, AccessRoles, AccessNone},
     d \in {0, 6, 17, MaxDecimals, MaxDecimals + 1}}

PeerConfigs ==
  {BaseConfig,
   [BaseConfig EXCEPT !.Mintable = TRUE, !.AccessControl = AccessRoles,
                      !.Decimals = 6, !.Name = MySpaceToken],
   [BaseConfig EXCEPT !.Symbol = <<>>]}

InitConc ==
  /\ cfg = BaseConfig
  /\ input = cfg
  /\ err = NilErr
  /\ calls = 0
  /\ first = [cfg |-> cfg, err |-> NilErr]
  /\ ListIdle
  /\ RunIdle
  /\ shared \in {[PackageState EXCEPT !.templatesFS = b] : b \in Builds}
  /\ reqs \in {[i \in Requests |->
                  [NoRequest EXCEPT !.input = IF i = 1 THEN a ELSE b,
                                    !.cfg = IF i = 1 THEN a ELSE b]] :
                 a \in ConcConfigs, b \in PeerConfigs}

\* request i has made its first k calls and goes on
Ready(i, k) == reqs[i].pc = k /\ reqs[i].err.isNil

\* the configuration a Generator points to
Deref(g) == reqs[g].cfg

ConcValidate(i) ==
  /\ reqs[i].pc = 0
  /\ LET r == ValidateResult(reqs[i].cfg)
     IN  reqs' = [reqs EXCEPT ![i].cfg = r.cfg, ![i].err = r.err, ![i].pc = 1]
  /\ UNCHANGED <<cfg, input, err, calls, first, listVars, runVars, shared>>

ConcImportPaths(i) ==
  /\ Ready(i, 1)
  /\ reqs' = [reqs EXCEPT ![i].imports = ImportPaths(reqs[i].cfg),
                          ![i].pc = 2]
  /\ UNCHANGED <<cfg, input, err, calls, first, listVars, runVars, shared>>

ConcInheritanceList(i) ==
  /\ Ready(i, 2)
  /\ reqs' = [reqs EXCEPT ![i].inherit = InheritanceList(reqs[i].cfg),
                          ![i].pc = 3]
  /\ UNCHANGED <<cfg, input, err, calls, first, listVars, runVars, shared>>

ConcSafeName(i) ==
  /\ Ready(i, 3)
  /\ reqs' = [reqs EXCEPT ![i].safe = SafeName(reqs[i].cfg), ![i].pc = 4]
  /\ UNCHANGED <<cfg, input, err, calls, first, listVars, runVars, shared>>

\* variant: New returns one package-level Generator and re-points it
ConcNewSingleton(i) ==
  /\ Ready(i, 4)
  /\ reqs' = [j \in Requests |->
                IF j = i THEN [reqs[j] EXCEPT !.gen = i, !.pc = 5]
                ELSE [reqs[j] EXCEPT !.gen = i]]
  /\ UNCHANGED <<cfg, input, err, calls, first, listVars, runVars, shared>>

\* generator.New: a fresh Generator pointing to the request's configuration
ConcNew(i) ==
  /\ Ready(i, 4)
  /\ reqs' = [reqs EXCEPT ![i].gen = i, ![i].pc = 5]
  /\ UNCHANGED <<cfg, input, err, calls, first, listVars, runVars, shared>>

ConcGenerateContract(i) ==
  /\ Ready(i, 5)
  /\ reqs' = [reqs EXCEPT
                ![i].contract = GenerateContract(Deref(reqs[i].gen)),
                ![i].pc = 6]
  /\ UNCHANGED <<cfg, input, err, calls, first, listVars, runVars, shared>>

ConcGenerateDeployScript(i) ==
  /\ Ready(i, 6)
  /\ reqs' = [reqs EXCEPT
                ![i].deploy = GenerateDeployScript(Deref(reqs[i].gen)),
                ![i].pc = 7]
  /\ UNCHANGED <<cfg, input, err, calls, first, listVars, runVars, shared>>

ConcGenerateTestSkeleton(i) ==
  /\ Ready(i, 7)
  /\ reqs' = [reqs EXCEPT
                ![i].test = GenerateTestSkeleton(Deref(reqs[i].gen)),
                ![i].pc = 8]
  /\ UNCHANGED <<cfg, input, err, calls, first, listVars, runVars, shared>>

NextConc ==
  \E i \in Requests :
    \/ ConcValidate(i)
    \/ ConcImportPaths(i)
    \/ ConcInheritanceList(i)
    \/ ConcSafeName(i)
    \/ ConcNew(i)
    \/ ConcGenerateContract(i)
    \/ ConcGenerateDeployScript(i)
    \/ ConcGenerateTestSkeleton(i)

SpecConc == InitConc /\ [][NextConc]_vars

(***************************************************************************)
(* Vocabulary of the properties                                            *)
(***************************************************************************)
Validated == calls >= 1

\* the error contains the message whose format begins with the given text
HasMsg(e, text) == \E i \in 1..Len(e.msgs) : e.msgs[i].text[1] = text

CountMsg(e, texts) ==
  Cardinality({i \in 1..Len(e.msgs) : e.msgs[i].text[1] \in texts})

\* position of a message's rule in the field-declaration order:
\* name, symbol, decimals, initialSupply, maxSupply (format, exceeds),
\* accessControl; 0 for a message of no rule
RuleRank(m) ==
  LET t == m.text[1]
  IN  IF t \in {MsgNameRequired, MsgNameInvalid} THEN 1
      ELSE IF t \in {MsgSymbolRequired, MsgSymbolInvalid} THEN 2
      ELSE IF t = MsgDecimals THEN 3
      ELSE IF t = MsgInitialPrefix THEN 4
      ELSE IF t = MsgMaxPrefix THEN 5
      ELSE IF t = MsgExceeds THEN 6
      ELSE IF t = MsgAccess THEN 7
      ELSE 0

HasRule(e, r) == \E i \in 1..Len(e.msgs) : RuleRank(e.msgs[i]) = r

\* The rules as the specification states them, on a configuration c.
\* A digit string is a non-empty sequence of the characters 0..9.
IsDigitString(s) == s # <<>> /\ \A i \in 1..Len(s) : s[i] \in Digits

MaxOf(a, b) == IF a >= b THEN a ELSE b

PadLeft(s, n) == Rep("0", n - Len(s)) \o s

\* a > b as numbers, for digit strings of any length
NumGreater(a, b) ==
  LET n == MaxOf(Len(a), Len(b))
  IN  CmpLex(PadLeft(a, n), PadLeft(b, n)) = 1

\* ^[A-Z0-9]{1,11}$ and ^[A-Za-z0-9 _\-]{1,64}$, on the field as given
SymbolMatches(s) ==
  /\ Len(s) \in 1..11
  /\ \A i \in 1..Len(s) : s[i] \in UpperLetters \cup Digits

NameMatches(s) ==
  /\ Len(s) \in 1..64
  /\ \A i \in 1..Len(s) :
       s[i] \in UpperLetters \cup LowerLetters \cup Digits \cup {" ", "_", "-"}

NameViolated(c) == ~NameMatches(c.Name) \/ TrimSpace(c.Name) = <<>>
SymbolViolated(c) == ~SymbolMatches(c.Symbol)
DecimalsViolated(c) == c.Decimals > 18
InitialFormatViolated(c) ==
  c.InitialSupply # <<>> /\ ~IsDigitString(TrimSpace(c.InitialSupply))
MaxFormatViolated(c) ==
  c.MaxSupply # <<>> /\ ~IsDigitString(TrimSpace(c.MaxSupply))
ExceedsViolated(c) ==
  /\ IsDigitString(c.InitialSupply)
  /\ IsDigitString(c.MaxSupply)
  /\ NumGreater(c.InitialSupply, c.MaxSupply)
AccessViolated(c) == c.AccessControl \notin {"", "ownable", "roles", "none"}

RuleViolated(c, r) ==
  IF r = 1 THEN NameViolated(c)
  ELSE IF r = 2 THEN SymbolViolated(c)
  ELSE IF r = 3 THEN DecimalsViolated(c)
  ELSE IF r = 4 THEN InitialFormatViolated(c)
  ELSE IF r = 5 THEN MaxFormatViolated(c)
  ELSE IF r = 6 THEN ExceedsViolated(c)
  ELSE AccessViolated(c)

Rules == 1..7

(***************************************************************************)
(* C1: every symbol that does not match ^[A-Z0-9]{1,11}$ makes Validate    *)
(* return an error, whatever the other fields are.                         *)
(***************************************************************************)
C1_InvalidSymbolRejected ==
  Validated /\ ~SymbolMatches(input.Symbol) => ~err.isNil

(***************************************************************************)
(* C2: for supply strings that are digit strings, Validate reports         *)
(* "initial supply cannot exceed max supply" exactly when InitialSupply    *)
(* is numerically greater than MaxSupply, at any magnitude.                *)
(***************************************************************************)
C2_ExceedsIsNumeric ==
  Validated /\ IsDigitString(input.InitialSupply)
            /\ IsDigitString(input.MaxSupply)
    => (HasMsg(err, "initial supply cannot exceed max supply")
          <=> NumGreater(input.InitialSupply, input.MaxSupply))

C2_Witness ==
  /\ Validated
  /\ input.InitialSupply = TwoTo64Plus1
  /\ input.MaxSupply = TwoTo64
  /\ HasMsg(err, "initial supply cannot exceed max supply")

(***************************************************************************)
(* C3: the returned error holds a message for every violated rule, and is  *)
(* nil exactly when no rule is violated.                                   *)
(***************************************************************************)
C3_AllViolationsReported ==
  Validated =>
    /\ \A r \in Rules : RuleViolated(input, r) => HasRule(err, r)
    /\ err.isNil <=> (\A r \in Rules : ~RuleViolated(input, r))

(***************************************************************************)
(* C4: the messages of a Validate error are in the order name, symbol,     *)
(* decimals, initialSupply, maxSupply format, exceeds-max, accessControl,  *)
(* whichever subset of the rules is violated.                              *)
(***************************************************************************)
C4_StableOrder ==
  Validated =>
    \A i, j \in 1..Len(err.msgs) :
      i < j => /\ RuleRank(err.msgs[i]) >= 1
               /\ RuleRank(err.msgs[i]) < RuleRank(err.msgs[j])

C4_Witness ==
  /\ Validated
  /\ Len(err.msgs) = 7
  /\ \A r \in Rules : HasRule(err, r)

(***************************************************************************)
(* C5: when Validate returns an error the normalizations have still been   *)
(* applied: empty AccessControl is ownable, empty License is "MIT", empty  *)
(* SolidityVersion is "^0.8.24", and Snapshot is true if Votes is true.    *)
(***************************************************************************)
C5_NormalizedOnFailure ==
  Validated /\ ~err.isNil =>
    /\ input.AccessControl = "" => cfg.AccessControl = "ownable"
    /\ input.License = "" => cfg.License = "MIT"
    /\ input.SolidityVersion = "" => cfg.SolidityVersion = "^0.8.24"
    /\ input.Votes => cfg.Votes /\ cfg.Snapshot

C5_Witness ==
  /\ Validated
  /\ ~err.isNil
  /\ input.AccessControl = "" /\ cfg.AccessControl = "ownable"
  /\ input.License = "" /\ cfg.License = "MIT"
  /\ input.SolidityVersion = "" /\ cfg.SolidityVersion = "^0.8.24"
  /\ input.Votes /\ ~input.Snapshot /\ cfg.Snapshot

(***************************************************************************)
(* C6: after any call to Validate, Votes implies Snapshot; Votes without   *)
(* Snapshot is corrected, not rejected: the coupling adds no message, so   *)
(* such an input with no rule violated validates successfully.             *)
(***************************************************************************)
C6_VotesImpliesSnapshot ==
  Validated =>
    /\ cfg.Votes => cfg.Snapshot
    /\ \A i \in 1..Len(err.msgs) : RuleRank(err.msgs[i]) \in Rules
    /\ (input.Votes /\ ~input.Snapshot
          /\ \A r \in Rules : ~RuleViolated(input, r))
         => err.isNil /\ cfg.Snapshot

C6_Witness ==
  /\ Validated
  /\ input.Votes /\ ~input.Snapshot
  /\ cfg.Votes /\ cfg.Snapshot
  /\ err.isNil

(***************************************************************************)
(* C7: Validate is idempotent: a second call on the configuration left by  *)
(* the first changes no field and returns the same outcome.                *)
(***************************************************************************)
C7_Idempotent ==
  calls >= 2 => cfg = first.cfg /\ err = first.err

C7_Witness ==
  /\ calls = 2
  /\ first.cfg # input
  /\ ~first.err.isNil
  /\ cfg = first.cfg

(***************************************************************************)
(* C8: after a successful Validate AccessControl is ownable, roles or      *)
(* none: empty becomes ownable without a message, the three values are     *)
(* kept, any other value fails with "invalid access control type".         *)
(***************************************************************************)
C8_AccessControlEnum ==
  Validated =>
    /\ err.isNil => cfg.AccessControl \in {"ownable", "roles", "none"}
    /\ input.AccessControl = ""
         => cfg.AccessControl = "ownable" /\ ~HasRule(err, 7)
    /\ input.AccessControl \in {"ownable", "roles", "none"}
         => cfg.AccessControl = input.AccessControl /\ ~HasRule(err, 7)
    /\ input.AccessControl \notin {"", "ownable", "roles", "none"}
         => ~err.isNil /\ HasRule(err, 7)

C8_Witness ==
  /\ Validated
  /\ input.AccessControl = ""
  /\ cfg.AccessControl = "ownable"
  /\ err.isNil

(***************************************************************************)
(* C9: every Decimals value above 18 gets the message "decimals must be    *)
(* between 0 and 18"; the values 0..18 get no decimals message.            *)
(***************************************************************************)
C9_DecimalsRange ==
  Validated =>
    (HasMsg(err, "decimals must be between 0 and 18") <=> input.Decimals > 18)

C9_Witness ==
  /\ Validated
  /\ input.Decimals = 19
  /\ HasMsg(err, "decimals must be between 0 and 18")

(***************************************************************************)
(* C10: a symbol matching ^[A-Z0-9]{1,11}$ gets no symbol message, so a    *)
(* configuration whose other fields are valid validates successfully.      *)
(***************************************************************************)
C10_ValidSymbolAccepted ==
  Validated /\ SymbolMatches(input.Symbol) =>
    /\ ~HasRule(err, 2)
    /\ (\A r \in Rules \ {2} : ~RuleViolated(input, r)) => err.isNil

C10_Witness ==
  /\ Validated
  /\ Len(input.Symbol) = 11
  /\ \E i \in 1..Len(input.Symbol) : input.Symbol[i] \in Digits
  /\ SymbolMatches(input.Symbol)
  /\ err.isNil

(***************************************************************************)
(* C11: after a successful Validate, Name is 1 to 64 characters long and   *)
(* consists only of ASCII letters, digits, spaces, hyphens and             *)
(* underscores; an empty name fails with "token name is required"; a name  *)
(* gets at most one message.                                               *)
(***************************************************************************)
C11_NameRule ==
  Validated =>
    /\ err.isNil =>
         /\ Len(cfg.Name) \in 1..64
         /\ \A i \in 1..Len(cfg.Name) :
              cfg.Name[i] \in UpperLetters \cup LowerLetters \cup Digits
                                \cup {" ", "-", "_"}
    /\ input.Name = <<>> => HasMsg(err, "token name is required")
    /\ CountMsg(err, {MsgNameRequired, MsgNameInvalid}) <= 1

C11_Witness ==
  /\ Validated
  /\ err.isNil
  /\ Len(cfg.Name) = 64

(***************************************************************************)
(* C12 as stated: every non-empty InitialSupply or MaxSupply that is not   *)
(* a string of decimal digits gets an "initial supply:" or "max supply:"   *)
(* message.                                                                *)
(***************************************************************************)
C12_NonDigitStringRejected ==
  Validated =>
    /\ (input.InitialSupply # <<>> /\ ~IsDigitString(input.InitialSupply))
         => HasMsg(err, "initial supply: ")
    /\ (input.MaxSupply # <<>> /\ ~IsDigitString(input.MaxSupply))
         => HasMsg(err, "max supply: ")

(***************************************************************************)
(* C12 amended: a non-empty InitialSupply or MaxSupply gets its message    *)
(* exactly when, with surrounding whitespace trimmed, it is not a          *)
(* non-empty string of decimal digits; empty values and "0" get none.      *)
(***************************************************************************)
C12_TrimmedNonDigitStringRejected ==
  Validated =>
    /\ HasMsg(err, "initial supply: ")
         <=> (input.InitialSupply # <<>>
                /\ ~IsDigitString(TrimSpace(input.InitialSupply)))
    /\ HasMsg(err, "max supply: ")
         <=> (input.MaxSupply # <<>>
                /\ ~IsDigitString(TrimSpace(input.MaxSupply)))

C12_Witness ==
  /\ Validated
  /\ input.InitialSupply = <<"1", ".", "5">>
  /\ input.MaxSupply = <<"+", "9">>
  /\ HasMsg(err, "initial supply: ")
  /\ HasMsg(err, "max supply: ")

(***************************************************************************)
(* Vocabulary of the composition properties                                *)
(***************************************************************************)
Entries(list) == {list[i] : i \in 1..Len(list)}

\* position of an import path in the documented order
ImportRank(e) ==
  IF e = "@openzeppelin/contracts/token/ERC20/ERC20.sol" THEN 0
  ELSE IF e = "@openzeppelin/contracts/token/ERC20/extensions/ERC20Burnable.sol"
    THEN 1
  ELSE IF e = "@openzeppelin/contracts/token/ERC20/extensions/ERC20Pausable.sol"
    THEN 2
  ELSE IF e = "@openzeppelin/contracts/utils/Pausable.sol" THEN 3
  ELSE IF e = "@openzeppelin/contracts/token/ERC20/extensions/ERC20Permit.sol"
    THEN 4
  ELSE IF e = "@openzeppelin/contracts/token/ERC20/extensions/ERC20Snapshot.sol"
    THEN 5
  ELSE IF e = "@openzeppelin/contracts/token/ERC20/extensions/ERC20Votes.sol"
    THEN 6
  ELSE IF e = "@openzeppelin/contracts/token/ERC20/extensions/ERC20Capped.sol"
    THEN 7
  ELSE IF e \in {"@openzeppelin/contracts/access/Ownable.sol",
                 "@openzeppelin/contracts/access/AccessControl.sol"} THEN 8
  ELSE -1

\* position of an inheritance entry in the documented order
InheritRank(e) ==
  IF e = "ERC20Capped" THEN 1
  ELSE IF e = "ERC20Burnable" THEN 2
  ELSE IF e = "ERC20Pausable" THEN 3
  ELSE IF e = "ERC20Permit" THEN 4
  ELSE IF e = "ERC20Snapshot" THEN 5
  ELSE IF e = "ERC20Votes" THEN 6
  ELSE IF e \in {"Ownable", "AccessControl"} THEN 7
  ELSE -1

\* the ranks the active features of c call for
ActiveImportRanks(c) ==
  {0} \cup (IF c.Burnable THEN {1} ELSE {})
      \cup (IF c.Pausable THEN {2, 3} ELSE {})
      \cup (IF c.Permit THEN {4} ELSE {})
      \cup (IF c.Snapshot THEN {5} ELSE {})
      \cup (IF c.Votes THEN {6} ELSE {})
      \cup (IF c.MaxSupply # <<>> THEN {7} ELSE {})
      \cup (IF c.AccessControl \in {"ownable", "roles"} THEN {8} ELSE {})

ActiveInheritRanks(c) ==
  (IF c.MaxSupply # <<>> THEN {1} ELSE {})
    \cup (IF c.Burnable THEN {2} ELSE {})
    \cup (IF c.Pausable THEN {3} ELSE {})
    \cup (IF c.Permit THEN {4} ELSE {})
    \cup (IF c.Snapshot THEN {5} ELSE {})
    \cup (IF c.Votes THEN {6} ELSE {})
    \cup (IF c.AccessControl \in {"ownable", "roles"} THEN {7} ELSE {})

(***************************************************************************)
(* C13: ImportPaths returns the base ERC20 entry first, then one entry     *)
(* per active feature in the order Burnable, Pausable extension, Pausable  *)
(* utility, Permit, Snapshot, Votes, Capped, access control, with no       *)
(* duplicates and nothing else.                                            *)
(***************************************************************************)
C13_ImportPathsExact ==
  q.nImp >= 1 =>
    /\ imports[1] = "@openzeppelin/contracts/token/ERC20/ERC20.sol"
    /\ \A i, j \in 1..Len(imports) :
         i < j => ImportRank(imports[i]) < ImportRank(imports[j])
    /\ {ImportRank(imports[i]) : i \in 1..Len(imports)}
         = ActiveImportRanks(cfg)

C13_Witness ==
  /\ q.nImp >= 1
  /\ Len(imports) = 9
  /\ imports[8] = "@openzeppelin/contracts/token/ERC20/extensions/ERC20Capped.sol"

(***************************************************************************)
(* C14: InheritanceList returns ERC20Capped first if MaxSupply is set,     *)
(* then ERC20Burnable, ERC20Pausable, ERC20Permit, ERC20Snapshot,          *)
(* ERC20Votes, each only if active, and the access-control entry last;     *)
(* it is determined by the field values.                                   *)
(***************************************************************************)
C14_InheritanceListExact ==
  q.nInh >= 1 =>
    /\ \A i, j \in 1..Len(inherit) :
         i < j => InheritRank(inherit[i]) < InheritRank(inherit[j])
    /\ {InheritRank(inherit[i]) : i \in 1..Len(inherit)}
         = ActiveInheritRanks(cfg)

C14_Witness ==
  /\ q.nInh >= 1
  /\ Len(inherit) = 7
  /\ inherit[1] = "ERC20Capped"
  /\ inherit[7] = "Ownable"

(***************************************************************************)
(* C15: in both lists the access-control entry is the ownable one exactly  *)
(* when AccessControl is ownable and the roles one exactly when it is      *)
(* roles; never both, and neither for none.                                *)
(***************************************************************************)
C15_AccessEntry ==
  /\ q.nImp >= 1 =>
       /\ "@openzeppelin/contracts/access/Ownable.sol" \in Entries(imports)
            <=> cfg.AccessControl = "ownable"
       /\ "@openzeppelin/contracts/access/AccessControl.sol" \in Entries(imports)
            <=> cfg.AccessControl = "roles"
       /\ ~ {"@openzeppelin/contracts/access/Ownable.sol",
             "@openzeppelin/contracts/access/AccessControl.sol"}
              \subseteq Entries(imports)
  /\ q.nInh >= 1 =>
       /\ "Ownable" \in Entries(inherit) <=> cfg.AccessControl = "ownable"
       /\ "AccessControl" \in Entries(inherit) <=> cfg.AccessControl = "roles"
       /\ ~ {"Ownable", "AccessControl"} \subseteq Entries(inherit)

C15_Witness ==
  /\ q.nImp >= 1
  /\ q.nInh >= 1
  /\ cfg.AccessControl = "roles"
  /\ "@openzeppelin/contracts/access/AccessControl.sol" \in Entries(imports)
  /\ "AccessControl" \in Entries(inherit)

(***************************************************************************)
(* C16: the capped entry is in ImportPaths and in InheritanceList exactly  *)
(* when MaxSupply is non-empty, whatever the flags and access control;     *)
(* with MaxSupply set and InitialSupply <= MaxSupply validation succeeds   *)
(* and the inheritance list begins with the capped entry.                  *)
(***************************************************************************)
C16_CappedIffMaxSupply ==
  /\ q.nImp >= 1 =>
       ("@openzeppelin/contracts/token/ERC20/extensions/ERC20Capped.sol"
          \in Entries(imports) <=> cfg.MaxSupply # <<>>)
  /\ q.nInh >= 1 =>
       /\ "ERC20Capped" \in Entries(inherit) <=> cfg.MaxSupply # <<>>
       /\ cfg.MaxSupply # <<>> => inherit[1] = "ERC20Capped"
  /\ (/\ Validated
      /\ IsDigitString(input.MaxSupply)
      /\ \/ input.InitialSupply = <<>>
         \/ /\ IsDigitString(input.InitialSupply)
            /\ ~NumGreater(input.InitialSupply, input.MaxSupply)
      /\ \A r \in Rules \ {6} : ~RuleViolated(input, r))
       => err.isNil

C16_Witness ==
  /\ Validated
  /\ err.isNil
  /\ cfg.InitialSupply = Million
  /\ cfg.MaxSupply = TenMillion
  /\ ~cfg.Mintable
  /\ q.nImp >= 1
  /\ q.nInh >= 1
  /\ inherit[1] = "ERC20Capped"
  /\ "@openzeppelin/contracts/token/ERC20/extensions/ERC20Capped.sol"
       \in Entries(imports)

(***************************************************************************)
(* C17: any number of ImportPaths and InheritanceList calls, in any        *)
(* order, leave the configuration unchanged, and each call returns the     *)
(* same sequence as the first.                                             *)
(***************************************************************************)
C17_QueriesPure ==
  /\ q.nImp + q.nInh >= 1 => cfg = q.cfg
  /\ q.nImp >= 1 => imports = q.imports
  /\ q.nInh >= 1 => inherit = q.inherit

C17_Witness ==
  /\ q.nImp >= 2
  /\ q.nInh >= 2
  /\ Len(imports) > 1
  /\ imports = q.imports
  /\ inherit = q.inherit

(***************************************************************************)
(* C18: SafeName returns the name with every non-alphanumeric character    *)
(* replaced by an underscore and every alphanumeric character kept in      *)
(* place; ContractFileName is SafeName followed by ".sol"; neither         *)
(* modifies the configuration.                                             *)
(***************************************************************************)
Alphanumeric(r) ==
  r \in UpperLetters \cup LowerLetters \cup Digits \cup {"U+00E9", "U+0663"}

Underscored(name, out) ==
  /\ Len(out) = Len(name)
  /\ \A i \in 1..Len(name) :
       out[i] = IF Alphanumeric(name[i]) THEN name[i] ELSE "_"

C18_SafeName ==
  /\ q.nSafe >= 1 => Underscored(cfg.Name, safe.name)
  /\ q.nFile >= 1 =>
       /\ Len(safe.file) = Len(cfg.Name) + 4
       /\ Underscored(cfg.Name, SubSeq(safe.file, 1, Len(cfg.Name)))
       /\ SubSeq(safe.file, Len(cfg.Name) + 1, Len(cfg.Name) + 4)
            = <<".", "s", "o", "l">>
  /\ q.nSafe + q.nFile >= 1 => cfg = q.cfg

C18_Witness ==
  /\ q.nSafe >= 1
  /\ q.nFile >= 1
  /\ cfg.Name = MySpaceToken
  /\ safe.name = My_Token
  /\ safe.file = My_Token \o <<".", "s", "o", "l">>

(***************************************************************************)
(* C19 as stated: two distinct names that both pass validation have        *)
(* distinct safe names.                                                    *)
(***************************************************************************)
BothNamed ==
  /\ Validated /\ err.isNil
  /\ peer.validated /\ peer.err.isNil
  /\ q.nSafe >= 1
  /\ peer.named

C19_SafeNameInjective ==
  BothNamed /\ cfg.Name # peer.cfg.Name => safe.name # peer.name

(***************************************************************************)
(* C19 amended: two names that both pass validation have the same safe     *)
(* name exactly when they have the same length and differ only at          *)
(* positions where each has a space, a hyphen or an underscore; names      *)
(* that differ in length or in a letter or digit have distinct safe names. *)
(***************************************************************************)
SameUpToSeparators(a, b) ==
  /\ Len(a) = Len(b)
  /\ \A i \in 1..Len(a) :
       a[i] = b[i] \/ {a[i], b[i]} \subseteq {" ", "-", "_"}

C19_SafeNameCollisions ==
  BothNamed =>
    (safe.name = peer.name <=> SameUpToSeparators(cfg.Name, peer.cfg.Name))

C19_Witness ==
  /\ BothNamed
  /\ cfg.Name = <<"T", "1">>
  /\ peer.cfg.Name = <<"T", "-">>
  /\ safe.name # peer.name

(***************************************************************************)
(* C20: when Validate fails inside runGenerate the command returns the     *)
(* validation error and nothing has been produced: no directory is         *)
(* created, no Generate operation is called, no file is written.           *)
(***************************************************************************)
C20_NothingOnValidationFailure ==
  (calls >= 1 /\ ~err.isNil) =>
    /\ pc = "returned"
    /\ ret = "validation error"
    /\ fs.dirs = {}
    /\ fs.files = {}
    /\ log = <<>>

C20_Witness ==
  /\ calls >= 1
  /\ ~err.isNil
  /\ input.WithDeploy
  /\ pc = "returned"
  /\ ret = "validation error"


(***************************************************************************)
(* C27: whenever InitialSupply and MaxSupply each pass the per-field       *)
(* supply check, which trims surrounding whitespace, and the integer value *)
(* of InitialSupply exceeds that of MaxSupply, Validate reports "initial   *)
(* supply cannot exceed max supply", also when a string carries leading or *)
(* trailing whitespace.                                                    *)
(***************************************************************************)
PassesSupplyCheck(s) == IsDigitString(TrimSpace(s))

C27_ComparisonNeverSkipped ==
  Validated /\ PassesSupplyCheck(input.InitialSupply)
            /\ PassesSupplyCheck(input.MaxSupply)
            /\ NumGreater(TrimSpace(input.InitialSupply),
                          TrimSpace(input.MaxSupply))
    => HasMsg(err, "initial supply cannot exceed max supply")

(***************************************************************************)
(* C28: Validate changes at most four fields: AccessControl from empty to  *)
(* ownable, License from empty to "MIT", SolidityVersion from empty to     *)
(* "^0.8.24", Snapshot from false to true when Votes is true.  The other   *)
(* twelve fields and non-empty AccessControl, License and SolidityVersion  *)
(* are kept as given, on success and on failure alike.                     *)
(***************************************************************************)
C28_ValidateFrame ==
  Validated =>
    /\ cfg.Name = input.Name
    /\ cfg.Symbol = input.Symbol
    /\ cfg.Decimals = input.Decimals
    /\ cfg.InitialSupply = input.InitialSupply
    /\ cfg.MaxSupply = input.MaxSupply
    /\ cfg.Mintable = input.Mintable
    /\ cfg.Burnable = input.Burnable
    /\ cfg.Pausable = input.Pausable
    /\ cfg.Permit = input.Permit
    /\ cfg.Votes = input.Votes
    /\ cfg.WithDeploy = input.WithDeploy
    /\ cfg.WithTest = input.WithTest
    /\ cfg.AccessControl =
         (IF input.AccessControl = "" THEN "ownable" ELSE input.AccessControl)
    /\ cfg.License = (IF input.License = "" THEN "MIT" ELSE input.License)
    /\ cfg.SolidityVersion =
         (IF input.SolidityVersion = "" THEN "^0.8.24"
          ELSE input.SolidityVersion)
    /\ cfg.Snapshot = (input.Snapshot \/ input.Votes)

C28_Witness ==
  /\ Validated
  /\ err.isNil
  /\ input.Symbol = <<"m","t","k">>
  /\ cfg.Symbol = <<"m","t","k">>
  /\ input.AccessControl = "" /\ cfg.AccessControl = "ownable"
  /\ input.License = "GPL-3.0" /\ cfg.License = "GPL-3.0"
  /\ input.Votes /\ ~input.Snapshot /\ cfg.Snapshot

C28_WitnessOnFailure ==
  /\ Validated
  /\ ~err.isNil
  /\ input.AccessControl = "superadmin"
  /\ cfg = input

(***************************************************************************)
(* C29: the two derived lists agree.  Each entry X of InheritanceList has  *)
(* exactly one import path ending in "/X.sol"; the entries common to both  *)
(* are in the same relative order, except that the capped entry is first   *)
(* in InheritanceList and after the extensions up to Votes in ImportPaths; *)
(* and len(ImportPaths) = 1 + len(InheritanceList) + (1 if Pausable).      *)
(***************************************************************************)
\* the X of a path ending in "/X.sol"
BaseNameOf(path) ==
  IF path = "@openzeppelin/contracts/token/ERC20/ERC20.sol" THEN "ERC20"
  ELSE IF path = "@openzeppelin/contracts/token/ERC20/extensions/ERC20Burnable.sol"
    THEN "ERC20Burnable"
  ELSE IF path = "@openzeppelin/contracts/token/ERC20/extensions/ERC20Pausable.sol"
    THEN "ERC20Pausable"
  ELSE IF path = "@openzeppelin/contracts/utils/Pausable.sol" THEN "Pausable"
  ELSE IF path = "@openzeppelin/contracts/token/ERC20/extensions/ERC20Permit.sol"
    THEN "ERC20Permit"
  ELSE IF path = "@openzeppelin/contracts/token/ERC20/extensions/ERC20Snapshot.sol"
    THEN "ERC20Snapshot"
  ELSE IF path = "@openzeppelin/contracts/token/ERC20/extensions/ERC20Votes.sol"
    THEN "ERC20Votes"
  ELSE IF path = "@openzeppelin/contracts/token/ERC20/extensions/ERC20Capped.sol"
    THEN "ERC20Capped"
  ELSE IF path = "@openzeppelin/contracts/access/Ownable.sol" THEN "Ownable"
  ELSE IF path = "@openzeppelin/contracts/access/AccessControl.sol"
    THEN "AccessControl"
  ELSE ""

BothListed == q.nImp >= 1 /\ q.nInh >= 1

\* the positions in imports of the paths ending in "/X.sol"
ImportsOf(x) == {j \in 1..Len(imports) : BaseNameOf(imports[j]) = x}

ImportPos(x) == CHOOSE j \in ImportsOf(x) : TRUE

InheritPositions == 1..Len(inherit)

ExtensionEntries ==
  {"ERC20Burnable", "ERC20Pausable", "ERC20Permit", "ERC20Snapshot",
   "ERC20Votes"}

C29_ListsAgree ==
  BothListed =>
    /\ \A i \in InheritPositions : Cardinality(ImportsOf(inherit[i])) = 1
    /\ \A i, k \in InheritPositions :
         i < k /\ inherit[i] # "ERC20Capped"
           => ImportPos(inherit[i]) < ImportPos(inherit[k])
    /\ \A i, k \in InheritPositions :
         inherit[i] = "ERC20Capped"
           => /\ i = 1
              /\ inherit[k] \in ExtensionEntries
                   => ImportPos(inherit[k]) < ImportPos("ERC20Capped")
              /\ inherit[k] \in {"Ownable", "AccessControl"}
                   => ImportPos("ERC20Capped") < ImportPos(inherit[k])
    /\ Len(imports) =
         1 + Len(inherit) + (IF cfg.Pausable THEN 1 ELSE 0)

C29_Witness ==
  /\ BothListed
  /\ cfg.Pausable /\ cfg.Votes /\ cfg.AccessControl = "roles"
  /\ Len(inherit) = 7
  /\ Len(imports) = 9
  /\ inherit[1] = "ERC20Capped"
  /\ ImportPos("ERC20Votes") < ImportPos("ERC20Capped")


(***************************************************************************)
(* Vocabulary of the properties of runGenerate and of the rendered texts   *)
(***************************************************************************)
InLog(op) == \E k \in 1..Len(log) : log[k] = op

LogPos(op) == CHOOSE k \in 1..Len(log) : log[k] = op

\* the artifact with its full text is on disk under its path
ContractOnDisk ==
  [path |-> [dir |-> "out", file |-> SafeName(cfg) \o <<".","s","o","l">>],
   text |-> ContractTemplate(cfg)] \in fs.files

DeployOnDisk ==
  \E f \in fs.files : /\ f.path.dir = "out/../scripts"
                      /\ f.text = DeployTemplate(cfg)

TestOnDisk ==
  \E f \in fs.files : /\ f.path.dir = "out/../test"
                      /\ f.text = TestTemplate(cfg)

DeployRequested == cfg.WithDeploy \/ flags.withDeploy

TestRequested == cfg.WithTest \/ flags.withTest

Contains(text, frag) ==
  \E l \in 1..Len(text) : \E k \in 1..Len(text[l]) : text[l][k] = frag

LineHas(line, frag) == \E k \in 1..Len(line) : line[k] = frag

MintLines(text) == {l \in 1..Len(text) : text[l][1] = "function mint("}

\* request i has its contract text
Rendered(i) == reqs[i].pc >= 6 /\ reqs[i].contract.err = "nil"

(***************************************************************************)
(* C21: in every runGenerate run the configuration is validated exactly    *)
(* once, before any rendering, and after that call no step modifies any    *)
(* field of the configuration.  A run whose prompts fail has no            *)
(* configuration and returns before Validate.                              *)
(***************************************************************************)
C21_ValidatedOnceThenFrozen ==
  /\ calls <= 1
  /\ pc \in {"mkdir", "contract", "deploy", "test", "checklist"} => calls = 1
  /\ pc = "returned" /\ ret # "prompt error" => calls = 1
  /\ log # <<>> => calls = 1
  /\ calls = 0 => cfg = input
  /\ calls = 1 => cfg = first.cfg

C21_Witness ==
  /\ pc = "returned"
  /\ ret = "nil"
  /\ calls = 1
  /\ InLog("GenerateContract")
  /\ InLog("GenerateDeployScript")
  /\ InLog("GenerateTestSkeleton")
  /\ InLog("printSecurityChecklist")
  /\ cfg.Name = MySpaceToken
  /\ cfg # input
  /\ cfg = first.cfg

(***************************************************************************)
(* C22: two requests that each own their configuration need no             *)
(* synchronization: under any interleaving of their Validate, ImportPaths, *)
(* InheritanceList, SafeName and Generate* calls each request gets the     *)
(* results it gets when it runs alone, which are determined by its own     *)
(* input, and the package-level variables are never written.               *)
(***************************************************************************)
\* what a request with input c gets when it runs alone
Alone(c) ==
  LET v == ValidateResult(c)
  IN  [cfg |-> v.cfg, err |-> v.err,
       imports |-> ImportPaths(v.cfg),
       inherit |-> InheritanceList(v.cfg),
       safe |-> SafeName(v.cfg),
       contract |-> Render(shared.templatesFS, "contract.sol.tmpl", v.cfg),
       deploy |-> Render(shared.templatesFS, "deploy.js.tmpl", v.cfg),
       test |-> Render(shared.templatesFS, "test.js.tmpl", v.cfg)]

C22_RequestsIndependent ==
  /\ shared.regexps = CompiledRegexps
  /\ shared.templatesFS \in Builds
  /\ \A i \in Requests :
       LET r == reqs[i]
           a == Alone(r.input)
       IN  /\ r.pc = 0 => r.cfg = r.input
           /\ r.pc >= 1 => r.cfg = a.cfg /\ r.err = a.err
           /\ r.pc >= 2 => r.imports = a.imports
           /\ r.pc >= 3 => r.inherit = a.inherit
           /\ r.pc >= 4 => r.safe = a.safe
           /\ r.pc >= 6 => r.contract = a.contract
           /\ r.pc >= 7 => r.deploy = a.deploy
           /\ r.pc >= 8 => r.test = a.test

C22_Witness ==
  /\ reqs[1].pc = 8
  /\ reqs[2].pc = 5
  /\ reqs[1].input.AccessControl = "none"
  /\ reqs[2].input.AccessControl = "roles"
  /\ reqs[1].contract.err = "nil"
  /\ reqs[1].contract.text = ContractTemplate(reqs[1].cfg)
  /\ reqs[1].contract.text # ContractTemplate(reqs[2].cfg)

C24_MintGuard ==
  \A i \in Requests :
    Rendered(i) =>
      LET c == reqs[i].cfg
          t == reqs[i].contract.text
      IN  /\ MintLines(t) # {} => c.Mintable
          /\ c.Mintable /\ c.AccessControl \in {"ownable", "roles", "none"}
               => MintLines(t) # {}
          /\ \A l \in MintLines(t) :
               /\ c.AccessControl = "ownable" => LineHas(t[l], "onlyOwner")
               /\ c.AccessControl = "roles"
                    => /\ LineHas(t[l], "onlyRole")
                       /\ LineHas(t[l], "MINTER_ROLE")
                       /\ ~LineHas(t[l], "onlyOwner")
               /\ c.AccessControl = "none"
                    => /\ ~LineHas(t[l], "onlyOwner")
                       /\ ~LineHas(t[l], "onlyRole")
          /\ c.AccessControl = "roles" => ~Contains(t, "onlyOwner")
          /\ c.AccessControl = "none"
               => ~Contains(t, "onlyOwner") /\ ~Contains(t, "onlyRole")

C24_Witness ==
  /\ Rendered(1)
  /\ reqs[1].cfg.Mintable
  /\ reqs[1].cfg.Pausable
  /\ reqs[1].cfg.AccessControl = "roles"
  /\ \E l \in MintLines(reqs[1].contract.text) :
       LineHas(reqs[1].contract.text[l], "onlyRole")

(***************************************************************************)
(* C25: the contract artifact contains a decimals() override, returning    *)
(* the configured value, exactly when Decimals is not 18; with Decimals 18 *)
(* no decimals() function is emitted.                                      *)
(***************************************************************************)
C25_DecimalsOverride ==
  \A i \in Requests :
    Rendered(i) =>
      LET c == reqs[i].cfg
          t == reqs[i].contract.text
      IN  /\ Contains(t, "function decimals()") <=> c.Decimals # 18
          /\ c.Decimals # 18
               => \E l \in 1..Len(t) :
                    t[l] = <<"return ", ToString(c.Decimals), ";">>
          /\ \A l \in 1..Len(t) :
               t[l][1] = "return " => t[l][2] = ToString(c.Decimals)

C25_Witness ==
  /\ Rendered(1)
  /\ reqs[1].cfg.Decimals = 0
  /\ Contains(reqs[1].contract.text, "function decimals()")
  /\ \E l \in 1..Len(reqs[1].contract.text) :
       reqs[1].contract.text[l] = <<"return ", "0", ";">>
  /\ Rendered(2)
  /\ reqs[2].cfg.Decimals = 18
  /\ ~Contains(reqs[2].contract.text, "function decimals()")

(***************************************************************************)
(* C26, as stated: in a run that passes validation the contract artifact   *)
(* is always generated and written, the deploy script exactly when         *)
(* WithDeploy or --with-deploy is true and the test skeleton exactly when  *)
(* WithTest or --with-test is true.                                        *)
(***************************************************************************)
C26_ArtifactsAlwaysWritten ==
  pc = "returned" /\ calls = 1 /\ err.isNil =>
    /\ InLog("GenerateContract")
    /\ ContractOnDisk
    /\ DeployOnDisk <=> DeployRequested
    /\ TestOnDisk <=> TestRequested

(***************************************************************************)
(* C26, amended: a run that returns nil has generated and written the      *)
(* contract, the deploy script exactly when WithDeploy or --with-deploy is *)
(* true and the test skeleton exactly when WithTest or --with-test is      *)
(* true; a run that passes validation gets there unless creating the       *)
(* output directory, rendering or writing fails; and no run generates a    *)
(* deploy script or a test skeleton that was not requested.                *)
(***************************************************************************)
C26_ArtifactsOfCompletedRun ==
  /\ ret = "nil" \/ pc = "checklist" =>
       /\ InLog("GenerateContract")
       /\ ContractOnDisk
       /\ InLog("GenerateDeployScript") <=> DeployRequested
       /\ DeployOnDisk <=> DeployRequested
       /\ InLog("GenerateTestSkeleton") <=> TestRequested
       /\ TestOnDisk <=> TestRequested
  /\ pc \in {"deploy", "test"} => ContractOnDisk
  /\ pc = "test" => (DeployOnDisk <=> DeployRequested)
  /\ InLog("GenerateDeployScript") => DeployRequested
  /\ InLog("GenerateTestSkeleton") => TestRequested
  /\ pc = "returned" /\ calls = 1 /\ err.isNil /\ ret # "nil"
       => ret \in {"failed to create output directory",
                   "contract generation failed", "failed to write contract",
                   "deploy script generation failed",
                   "failed to write deploy script",
                   "test skeleton generation failed",
                   "failed to write test skeleton"}

C26_Witness ==
  /\ ret = "nil"
  /\ flags.prompt
  /\ cfg.WithDeploy
  /\ ~flags.withDeploy
  /\ ~cfg.WithTest
  /\ ~flags.withTest
  /\ ContractOnDisk
  /\ DeployOnDisk
  /\ ~TestOnDisk

(***************************************************************************)
(* C30: runGenerate produces the artifacts in the order contract, deploy   *)
(* script, test skeleton.  A failure to generate or write one artifact     *)
(* ends the run with an error, the artifacts already written stay on disk, *)
(* no later artifact is generated or written, and the security checklist   *)
(* is printed and nil returned only after every requested artifact has     *)
(* been written.                                                           *)
(***************************************************************************)
ContractFailures ==
  {"contract generation failed", "failed to write contract"}

DeployFailures ==
  {"deploy script generation failed", "failed to write deploy script"}

TestFailures ==
  {"test skeleton generation failed", "failed to write test skeleton"}

DeployOps == {"MkdirAll scripts", "GenerateDeployScript", "WriteFile deploy"}

TestOps == {"MkdirAll test", "GenerateTestSkeleton", "WriteFile test"}

C30_OrderedNoRollback ==
  /\ InLog("GenerateDeployScript")
       => /\ InLog("WriteFile contract")
          /\ LogPos("WriteFile contract") < LogPos("GenerateDeployScript")
          /\ ContractOnDisk
  /\ InLog("GenerateTestSkeleton")
       => /\ InLog("WriteFile contract")
          /\ LogPos("WriteFile contract") < LogPos("GenerateTestSkeleton")
          /\ ContractOnDisk
          /\ DeployRequested
               => /\ InLog("WriteFile deploy")
                  /\ LogPos("WriteFile deploy") < LogPos("GenerateTestSkeleton")
                  /\ DeployOnDisk
  /\ ret \in ContractFailures
       => /\ pc = "returned"
          /\ ~ContractOnDisk
          /\ \A op \in DeployOps \cup TestOps : ~InLog(op)
          /\ ~InLog("printSecurityChecklist")
  /\ ret \in DeployFailures
       => /\ pc = "returned"
          /\ ContractOnDisk
          /\ ~DeployOnDisk
          /\ \A op \in TestOps : ~InLog(op)
          /\ ~InLog("printSecurityChecklist")
  /\ ret \in TestFailures
       => /\ pc = "returned"
          /\ ContractOnDisk
          /\ DeployRequested => DeployOnDisk
          /\ ~TestOnDisk
          /\ ~InLog("printSecurityChecklist")
  /\ InLog("printSecurityChecklist") <=> ret = "nil"
  /\ ret = "nil"
       => /\ pc = "returned"
          /\ log[Len(log)] = "printSecurityChecklist"
          /\ ContractOnDisk
          /\ DeployRequested => DeployOnDisk
          /\ TestRequested => TestOnDisk

C30_Witness ==
  /\ pc = "returned"
  /\ ret = "failed to write test skeleton"
  /\ ContractOnDisk
  /\ DeployOnDisk
  /\ \E f \in fs.files : f.path.dir = "out/../test" /\ f.text = <<>>

====
